---- MODULE Spec2Model ----
(***************************************************************************)
(* Jhigu Patro Utils: the AD <-> BS conversion engine (nepaliCalendar.ts)  *)
(* with its pluggable calendar data source, modelled as a state machine.   *)
(*                                                                         *)
(* The state is the process-wide data source (_dataSource), the UTC offset *)
(* of the host the process runs on (JS Date field accessors read it) and   *)
(* the record of the last call of the public API with its outcome; a       *)
(* JsonCalendarDataSource instance with the initialize() calls in flight   *)
(* on it; and a CalendarController with its listeners.                     *)
(*                                                                         *)
(* A JS Date is an absolute instant.  It is modelled as                    *)
(*   [day |-> whole days since 1943-04-14T00:00Z, ms |-> 0..MS_PER_DAY-1]  *)
(* so that millisecond arithmetic stays inside TLC's integers.  A calendar *)
(* day (year, month, day-of-month) is represented by its day index: the    *)
(* number of days from 1943-04-14, which is what                           *)
(* (Date.UTC(y, m, d) - BASE_UTC) / 86_400_000 computes.                   *)
(*                                                                         *)
(* The specifications share the state:                                     *)
(*   Spec        the engine API over well-formed data sources              *)
(*   SourceSpec  the data sources as client code can build them (inline    *)
(*               and JSON-loaded, unvalidated tables and declared ranges)  *)
(*   ClockSpec   the Nepal-time shift and the functions that read the      *)
(*               clock (getCurrentNepaliDate, getRelativeTimeInNepali)     *)
(*   FormatSpec  the formatting functions                                  *)
(*   LoaderSpec  JsonCalendarDataSource.initialize, one step per await     *)
(*   PortedSpec  the engine API over well-formed and malformed tables,     *)
(*               compared with the Dart engine (class NepaliCalendar)      *)
(*   ControllerSpec  the operations of CalendarController                  *)
(* A JS string is modelled as the sequence of its UTF-16 code units.       *)
(***************************************************************************)
EXTENDS Integers, Sequences, FiniteSets, TLC

VARIABLES _dataSource, hostOffset, call,
          jsonSource, requests, tasks,
          controller, notified, subscriptions

\* a JsonCalendarDataSource instance, the fetches issued for it and the
\* initialize() calls made on it
loaderVars == <<jsonSource, requests, tasks>>

\* a CalendarController, the listener calls of its last operation and, for
\* each listener function, the subscribe calls whose unsubscribe function
\* has not been invoked
controllerVars == <<controller, notified, subscriptions>>

vars == <<_dataSource, hostOffset, call, loaderVars, controllerVars>>

----------------------------------------------------------------------------
(* Program constants *)

BS_BASE_YEAR == 2000

MS_PER_DAY == 86400000

NEPAL_OFFSET_MS == (5 * 60 + 45) * 60 * 1000

MONTHS_PER_YEAR == 12

----------------------------------------------------------------------------
(* Bounds of the model *)

\* data-source years range over BS_BASE_YEAR-1 .. BS_BASE_YEAR+YearsAfter
YearsAfter == 1

\* AD days before the epoch that are offered as inputs
PreEpochDays == 3

\* AD days after the last day the largest data source covers
PostDataDays == 2

----------------------------------------------------------------------------
(* Outcomes of a call: a returned value or a thrown error *)

Ok(v) == [kind |-> "ok", val |-> v]

Err(k) == [kind |-> k, val |-> <<>>]

NotInitialized == Err("NotInitialized")

UnknownYear == Err("UnknownYear")

InvalidDate == Err("InvalidDate")

\* the value of an out-of-range array read in JS
undefined == [kind |-> "undefined", val |-> <<>>]

IsOk(r) == r.kind = "ok"

IsError(r) == r.kind \in {"NotInitialized", "UnknownYear", "InvalidDate"}

\* `null` for the data-source slot and for a getYearData result
null == [isNull |-> TRUE]

noYearData == <<>>

----------------------------------------------------------------------------
(* Calendar data *)

\* month tables of BS 2079..2082
ReferenceTables ==
  << <<31, 32, 31, 32, 31, 30, 30, 29, 30, 29, 30, 30>>,
     <<31, 32, 31, 32, 31, 30, 30, 30, 29, 29, 30, 30>>,
     <<31, 32, 31, 32, 31, 30, 30, 30, 29, 30, 29, 31>>,
     <<31, 31, 32, 31, 31, 31, 30, 29, 30, 29, 30, 30>> >>

\* a table the constructor accepts as well: twelve lengths in 29..32 that
\* belong to no BS year
UnofficialTable == <<31, 31, 32, 31, 31, 31, 30, 29, 30, 29, 30, 32>>

\* the years a data source of the model may hold
Years == (BS_BASE_YEAR - 1)..(BS_BASE_YEAR + YearsAfter)

\* the table the model's JSON holds for a year: the years before the epoch
\* year carry the unofficial table, the others the reference tables in turn,
\* the epoch year that of 2081 (366 days), the next that of 2082 (365 days)
YearTable(y) ==
  IF y < BS_BASE_YEAR THEN UnofficialTable
  ELSE ReferenceTables[((y - BS_BASE_YEAR + 2) % Len(ReferenceTables)) + 1]

\* new InlineCalendarDataSource(years, startYear, endYear)
InlineCalendarDataSource(years, startYear, endYear) ==
  [isNull |-> FALSE, _yearData |-> years, _startYear |-> startYear,
   _endYear |-> endYear]

\* the data sources offered to initializeCalendar: every subset of Years
\* with its tables, declared with the range of the years it holds
MinOf(S) == CHOOSE x \in S : \A y \in S : x <= y

MaxOf(S) == CHOOSE x \in S : \A y \in S : x >= y

DataSources ==
  { InlineCalendarDataSource([y \in Y |-> YearTable(y)],
                             IF Y = {} THEN 0 ELSE MinOf(Y),
                             IF Y = {} THEN 0 ELSE MaxOf(Y)) : Y \in SUBSET Years }

getYearData(src, year) ==
  IF year \in DOMAIN src._yearData THEN src._yearData[year] ELSE noYearData

supportedStartYear(src) == src._startYear

supportedEndYear(src) == src._endYear

----------------------------------------------------------------------------
(* JS Date arithmetic *)

\* new Date(date.getTime() + delta), |delta| < MS_PER_DAY
AddMs(date, delta) ==
  LET t == date.ms + delta
  IN  IF t < 0 THEN [day |-> date.day - 1, ms |-> t + MS_PER_DAY]
      ELSE IF t >= MS_PER_DAY THEN [day |-> date.day + 1, ms |-> t - MS_PER_DAY]
      ELSE [day |-> date.day, ms |-> t]

\* the host-local wall clock of an instant: what getFullYear/getMonth/getDate
\* and the time accessors read
LocalFields(date, off) == AddMs(date, off)

\* new Date(y, m, d, 0, 0, 0, ms) on a host at UTC offset `off`
NewLocalDate(dayIndex, ms, off) == AddMs([day |-> dayIndex, ms |-> ms], -off)

\* Date.UTC(y, m, d): UTC midnight of the calendar day with that index
DateUTC(dayIndex) == [day |-> dayIndex, ms |-> 0]

\* BASE_UTC = Date.UTC(1943, 3, 14)
BASE_UTC == DateUTC(0)

\* Math.round((a - b) / 86_400_000) for two instants a, b
RoundDays(a, b) ==
  LET d  == IF a.ms >= b.ms THEN a.day - b.day ELSE a.day - b.day - 1
      ms == IF a.ms >= b.ms THEN a.ms - b.ms ELSE a.ms - b.ms + MS_PER_DAY
  IN  IF 2 * ms >= MS_PER_DAY THEN d + 1 ELSE d

\* BS_BASE_DATE = new Date(1943, 3, 14): local midnight of day index 0
BS_BASE_DATE(off) == NewLocalDate(0, 0, off)

\* date.setDate(date.getDate() + n): same local wall-clock time, n days on
SetDatePlus(date, n, off) ==
  LET loc == LocalFields(date, off)
  IN  AddMs([day |-> loc.day + n, ms |-> loc.ms], -off)

----------------------------------------------------------------------------
(* Data helpers *)

ds(S) == IF S = null THEN NotInitialized ELSE Ok(S)

\* arr[i] with a 0-based index: undefined outside the array
Index(arr, i) == IF i >= 0 /\ i < Len(arr) THEN Ok(arr[i + 1]) ELSE undefined

RECURSIVE SumSeq(_)
SumSeq(s) == IF s = <<>> THEN 0 ELSE Head(s) + SumSeq(Tail(s))

\* mutant: the 1-based month is used as the array index
getDaysInBSMonth_oneBasedIndex(S, year, month) ==
  LET src == ds(S)
  IN  IF ~IsOk(src) THEN src
      ELSE LET yearData == getYearData(src.val, year)
           IN  IF yearData = noYearData THEN UnknownYear
               ELSE Index(yearData, month)

getDaysInBSMonth(S, year, month) ==
  LET src == ds(S)
  IN  IF ~IsOk(src) THEN src
      ELSE LET yearData == getYearData(src.val, year)
           IN  IF yearData = noYearData THEN UnknownYear
               ELSE Index(yearData, month - 1)

getTotalDaysInBSYear(S, year) ==
  LET src == ds(S)
  IN  IF ~IsOk(src) THEN src
      ELSE LET yearData == getYearData(src.val, year)
           IN  IF yearData = noYearData THEN UnknownYear
               ELSE Ok(SumSeq(yearData))

\* mutant: the last day of a month is rejected (day < length)
isValidBSDate_strictDay(S, year, month, day) ==
  IF month < 1 \/ month > 12 \/ day < 1 THEN Ok(FALSE)
  ELSE LET src == ds(S)
       IN  IF ~IsOk(src) THEN src
           ELSE LET yearData == getYearData(src.val, year)
                IN  IF yearData = noYearData THEN Ok(FALSE)
                    ELSE LET len == Index(yearData, month - 1)
                         IN  Ok(IsOk(len) /\ day < len.val)

isValidBSDate(S, year, month, day) ==
  IF month < 1 \/ month > 12 \/ day < 1 THEN Ok(FALSE)
  ELSE LET src == ds(S)
       IN  IF ~IsOk(src) THEN src
           ELSE LET yearData == getYearData(src.val, year)
                IN  IF yearData = noYearData THEN Ok(FALSE)
                    ELSE LET len == Index(yearData, month - 1)
                         IN  Ok(IsOk(len) /\ day <= len.val)

\* mutant: the loop stops before supportedEndYear
RECURSIVE AvailableFrom_exclusiveEnd(_, _)
AvailableFrom_exclusiveEnd(src, y) ==
  IF y >= supportedEndYear(src) THEN <<>>
  ELSE (IF getYearData(src, y) # noYearData THEN <<y>> ELSE <<>>)
       \o AvailableFrom_exclusiveEnd(src, y + 1)

\* for (let y = src.supportedStartYear; y <= src.supportedEndYear; y++)
RECURSIVE AvailableFrom(_, _)
AvailableFrom(src, y) ==
  IF y > supportedEndYear(src) THEN <<>>
  ELSE (IF getYearData(src, y) # noYearData THEN <<y>> ELSE <<>>)
       \o AvailableFrom(src, y + 1)

getAvailableBSYears(S) ==
  LET src == ds(S)
  IN  IF ~IsOk(src) THEN src
      ELSE Ok(AvailableFrom(src.val, supportedStartYear(src.val)))

----------------------------------------------------------------------------
(* Conversion *)

NepaliDate(year, month, day) == [year |-> year, month |-> month, day |-> day]

\* the first loop of convertADToBS: whole years are taken off `remaining`
RECURSIVE YearWalk(_, _, _)
YearWalk(S, year, remaining) ==
  IF remaining > 0
  THEN LET diy == getTotalDaysInBSYear(S, year)
       IN  IF ~IsOk(diy) THEN diy
           ELSE IF remaining >= diy.val
                THEN YearWalk(S, year + 1, remaining - diy.val)
                ELSE Ok([year |-> year, remaining |-> remaining])
  ELSE Ok([year |-> year, remaining |-> remaining])

\* mutant: a month is taken off only when more than its length remains
RECURSIVE MonthWalk_offByOne(_, _, _, _)
MonthWalk_offByOne(S, year, month, remaining) ==
  IF remaining > 0
  THEN LET dim == getDaysInBSMonth(S, year, month)
       IN  IF IsError(dim) THEN dim
           ELSE IF IsOk(dim) /\ remaining > dim.val
                THEN MonthWalk_offByOne(S, year, month + 1, remaining - dim.val)
                ELSE Ok(NepaliDate(year, month, remaining + 1))
  ELSE Ok(NepaliDate(year, month, remaining + 1))

\* the second loop: whole months are taken off `remaining`
RECURSIVE MonthWalk(_, _, _, _)
MonthWalk(S, year, month, remaining) ==
  IF remaining > 0
  THEN LET dim == getDaysInBSMonth(S, year, month)
       IN  IF IsError(dim) THEN dim
           ELSE IF IsOk(dim) /\ remaining >= dim.val
                THEN MonthWalk(S, year, month + 1, remaining - dim.val)
                ELSE Ok(NepaliDate(year, month, remaining + 1))
  ELSE Ok(NepaliDate(year, month, remaining + 1))

\* mutant: the UTC date fields are read instead of the host-local ones
convertADToBS_utcFields(S, off, adDate) ==
  LET adUTC     == DateUTC(adDate.day)
      remaining == RoundDays(adUTC, BASE_UTC)
      yw        == YearWalk(S, BS_BASE_YEAR, remaining)
  IN  IF ~IsOk(yw) THEN yw
      ELSE MonthWalk(S, yw.val.year, 1, yw.val.remaining)

convertADToBS(S, off, adDate) ==
  LET adUTC     == DateUTC(LocalFields(adDate, off).day)
      remaining == RoundDays(adUTC, BASE_UTC)
      yw        == YearWalk(S, BS_BASE_YEAR, remaining)
  IN  IF ~IsOk(yw) THEN yw
      ELSE MonthWalk(S, yw.val.year, 1, yw.val.remaining)

\* for (let y = BS_BASE_YEAR; y < bsYear; y++) total += getTotalDaysInBSYear(y)
RECURSIVE YearsTotal(_, _, _, _)
YearsTotal(S, y, bsYear, total) ==
  IF y < bsYear
  THEN LET diy == getTotalDaysInBSYear(S, y)
       IN  IF ~IsOk(diy) THEN diy ELSE YearsTotal(S, y + 1, bsYear, total + diy.val)
  ELSE Ok(total)

\* for (let m = 1; m < bsMonth; m++) total += getDaysInBSMonth(bsYear, m)
RECURSIVE MonthsTotal(_, _, _, _, _)
MonthsTotal(S, bsYear, m, bsMonth, total) ==
  IF m < bsMonth
  THEN LET dim == getDaysInBSMonth(S, bsYear, m)
       IN  IF ~IsOk(dim) THEN dim
           ELSE MonthsTotal(S, bsYear, m + 1, bsMonth, total + dim.val)
  ELSE Ok(total)

\* mutant: the triple is validated after the days have been added up
convertBSToAD_validatesLast(S, off, bsYear, bsMonth, bsDay) ==
  LET yt == YearsTotal(S, BS_BASE_YEAR, bsYear, 0)
  IN  IF ~IsOk(yt) THEN yt
      ELSE LET mt == MonthsTotal(S, bsYear, 1, bsMonth, yt.val)
           IN  IF ~IsOk(mt) THEN mt
               ELSE LET valid == isValidBSDate(S, bsYear, bsMonth, bsDay)
                    IN  IF ~IsOk(valid) THEN valid
                        ELSE IF ~valid.val THEN InvalidDate
                        ELSE Ok(SetDatePlus(BS_BASE_DATE(off), mt.val + (bsDay - 1), off))

convertBSToAD(S, off, bsYear, bsMonth, bsDay) ==
  LET valid == isValidBSDate(S, bsYear, bsMonth, bsDay)
  IN  IF ~IsOk(valid) THEN valid
      ELSE IF ~valid.val THEN InvalidDate
      ELSE LET yt == YearsTotal(S, BS_BASE_YEAR, bsYear, 0)
           IN  IF ~IsOk(yt) THEN yt
               ELSE LET mt == MonthsTotal(S, bsYear, 1, bsMonth, yt.val)
                    IN  IF ~IsOk(mt) THEN mt
                        ELSE Ok(SetDatePlus(BS_BASE_DATE(off), mt.val + (bsDay - 1), off))

----------------------------------------------------------------------------
(* Inputs *)

\* host UTC offsets in ms: UTC-5, UTC, Nepal
HostOffsets == {0 - 18000000, NEPAL_OFFSET_MS}

\* the AD calendar days offered as inputs, as day indices from 1943-04-14:
\* the days before the epoch, every day of the longest span of years a data
\* source covers, and the days after it
DaysOfYears == 366 * (YearsAfter + 1)

InputDays == (0 - PreEpochDays)..(DaysOfYears + PostDataDays)

\* wall-clock times of day of an input Date
InputTimes == {0, MS_PER_DAY - 1}

InputYears == (BS_BASE_YEAR - 2)..(BS_BASE_YEAR + YearsAfter + 1)

InputMonths == 0..(MONTHS_PER_YEAR + 1)

\* days of a month: around day 1, mid-month and around every month length
InputDaysOfMonth == {0, 1, 2, 15} \cup 28..33

----------------------------------------------------------------------------
(* The JSON-loaded data source *)

\* new JsonCalendarDataSource()
JsonCalendarDataSource ==
  [isNull |-> FALSE, _yearData |-> <<>>, _startYear |-> 0, _endYear |-> 0,
   _initialized |-> FALSE]

\* the body of a fetched document: supportedRange and years of a CalendarJson
CalendarJson(years, start, end) ==
  [supportedRange |-> [start |-> start, end |-> end], years |-> years]

Response(ok, data) == [ok |-> ok, data |-> data]

\* await self.initialize(url), the fetch answering with `response`: the
\* source as it is afterwards, or the error thrown
initialize(self, response) ==
  IF self._initialized THEN Ok(self)
  ELSE IF ~response.ok THEN Err("FetchFailed")
  ELSE Ok([isNull |-> FALSE,
           _yearData |-> [y \in DOMAIN self._yearData \cup DOMAIN response.data.years |->
                            IF y \in DOMAIN response.data.years
                            THEN response.data.years[y] ELSE self._yearData[y]],
           _startYear |-> response.data.supportedRange.start,
           _endYear |-> response.data.supportedRange.end,
           _initialized |-> TRUE])

\* the initialize() calls made on the instance
MaxInitializeCalls == 3

Tasks == 1..MaxInitializeCalls

Task(pc, data) == [pc |-> pc, data |-> data]

\* the listener functions handed to subscribe: the render callback of a
\* CalendarSection, and a callback that destroys that section
Listeners == {"render", "destroy"}

----------------------------------------------------------------------------
(* The state machine *)

Call(op, args, from, out) == [op |-> op, args |-> args, from |-> from, out |-> out]

NoCall == Call("none", <<>>, <<>>, Ok(<<>>))

Init ==
  /\ _dataSource = null
  /\ hostOffset \in HostOffsets
  /\ call = NoCall
  /\ jsonSource = JsonCalendarDataSource
  /\ requests = 0
  /\ tasks = [t \in Tasks |-> Task("idle", <<>>)]
  /\ controller = null
  /\ notified = <<>>
  /\ subscriptions = [fn \in Listeners |-> 0]

\* mutant: the tables of the source that is replaced are kept next to the new
initializeCalendar_mergesOld(source) ==
  /\ _dataSource' =
       IF _dataSource = null THEN source
       ELSE [source EXCEPT !._yearData =
               [y \in DOMAIN source._yearData \cup DOMAIN _dataSource._yearData |->
                  IF y \in DOMAIN source._yearData
                  THEN source._yearData[y] ELSE _dataSource._yearData[y]]]
  /\ call' = Call("initializeCalendar", <<source>>, <<_dataSource>>, Ok(<<>>))
  /\ UNCHANGED <<hostOffset, loaderVars, controllerVars>>

\* the call record keeps the source that was replaced in `from`
initializeCalendar(source) ==
  /\ _dataSource' = source
  /\ call' = Call("initializeCalendar", <<source>>, <<_dataSource>>, Ok(<<>>))
  /\ UNCHANGED <<hostOffset, loaderVars, controllerVars>>

\* the caller is done with the result of its last call
Discard ==
  /\ call # NoCall
  /\ call' = NoCall
  /\ UNCHANGED <<_dataSource, hostOffset, loaderVars, controllerVars>>

IsValidBSDate(year, month, day) ==
  /\ call = NoCall
  /\ call' = Call("isValidBSDate", <<year, month, day>>, <<>>,
                  isValidBSDate(_dataSource, year, month, day))
  /\ UNCHANGED <<_dataSource, hostOffset, loaderVars, controllerVars>>

GetDaysInBSMonth(year, month) ==
  /\ call = NoCall
  /\ call' = Call("getDaysInBSMonth", <<year, month>>, <<>>,
                  getDaysInBSMonth(_dataSource, year, month))
  /\ UNCHANGED <<_dataSource, hostOffset, loaderVars, controllerVars>>

GetTotalDaysInBSYear(year) ==
  /\ call = NoCall
  /\ call' = Call("getTotalDaysInBSYear", <<year>>, <<>>,
                  getTotalDaysInBSYear(_dataSource, year))
  /\ UNCHANGED <<_dataSource, hostOffset, loaderVars, controllerVars>>

GetAvailableBSYears ==
  /\ call = NoCall
  /\ call' = Call("getAvailableBSYears", <<>>, <<>>, getAvailableBSYears(_dataSource))
  /\ UNCHANGED <<_dataSource, hostOffset, loaderVars, controllerVars>>

\* convertADToBS(new Date(y, m, d, ...)) for a calendar day of the inputs
ConvertADToBS(dayIndex, ms) ==
  LET adDate == NewLocalDate(dayIndex, ms, hostOffset)
  IN  /\ call = NoCall
      /\ call' = Call("convertADToBS", <<adDate.day, adDate.ms>>, <<>>,
                      convertADToBS(_dataSource, hostOffset, adDate))
      /\ UNCHANGED <<_dataSource, hostOffset, loaderVars, controllerVars>>

ConvertBSToAD(year, month, day) ==
  /\ call = NoCall
  /\ call' = Call("convertBSToAD", <<year, month, day>>, <<>>,
                  convertBSToAD(_dataSource, hostOffset, year, month, day))
  /\ UNCHANGED <<_dataSource, hostOffset, loaderVars, controllerVars>>

\* const ad = convertBSToAD(y, m, d); convertADToBS(ad)
ConvertBackToBS ==
  /\ call.op = "convertBSToAD" /\ IsOk(call.out)
  /\ call' = Call("convertADToBS", <<call.out.val.day, call.out.val.ms>>, call.args,
                  convertADToBS(_dataSource, hostOffset, call.out.val))
  /\ UNCHANGED <<_dataSource, hostOffset, loaderVars, controllerVars>>

\* const bs = convertADToBS(d); convertBSToAD(bs.year, bs.month, bs.day)
ConvertBackToAD ==
  /\ call.op = "convertADToBS" /\ IsOk(call.out)
  /\ LET bs == call.out.val
     IN  call' = Call("convertBSToAD", <<bs.year, bs.month, bs.day>>, call.args,
                      convertBSToAD(_dataSource, hostOffset, bs.year, bs.month, bs.day))
  /\ UNCHANGED <<_dataSource, hostOffset, loaderVars, controllerVars>>

Next ==
  \/ \E source \in DataSources : initializeCalendar(source)
  \/ \E y \in InputYears, m \in InputMonths, d \in InputDaysOfMonth : IsValidBSDate(y, m, d)
  \/ \E y \in InputYears, m \in InputMonths : GetDaysInBSMonth(y, m)
  \/ \E y \in InputYears : GetTotalDaysInBSYear(y)
  \/ GetAvailableBSYears
  \/ \E dayIndex \in InputDays, ms \in InputTimes : ConvertADToBS(dayIndex, ms)
  \/ \E y \in InputYears, m \in InputMonths, d \in InputDaysOfMonth : ConvertBSToAD(y, m, d)
  \/ ConvertBackToBS
  \/ ConvertBackToAD
  \/ Discard

Spec == Init /\ [][Next]_vars

----------------------------------------------------------------------------
(* Vocabulary of the properties *)

Installed == _dataSource # null

\* the Date a recorded convertADToBS call was given
ArgDate(c) == [day |-> c.args[1], ms |-> c.args[2]]

\* the calendar day (day index) a Date shows on this host
LocalDay(date) == LocalFields(date, hostOffset).day

HasYear(y) == Installed /\ y \in DOMAIN _dataSource._yearData

InSupportedRange(y) ==
  Installed /\ _dataSource._startYear <= y /\ y <= _dataSource._endYear

\* the month length the installed tables give
MonthLength(y, m) == _dataSource._yearData[y][m]

\* the validity rule as the specification words it
ValidByRule(y, m, d) ==
  /\ m \in 1..12
  /\ d >= 1
  /\ HasYear(y)
  /\ d <= MonthLength(y, m)

\* The Bikram Sambat calendar itself, as the tables of the model define it
\* from the epoch year on: the day index of BS y/m/d, counted from 2000/1/1.
RECURSIVE CalendarDaysBeforeYear(_)
CalendarDaysBeforeYear(y) ==
  IF y <= BS_BASE_YEAR THEN 0
  ELSE CalendarDaysBeforeYear(y - 1) + SumSeq(YearTable(y - 1))

CalendarDayIndex(y, m, d) ==
  CalendarDaysBeforeYear(y) + SumSeq(SubSeq(YearTable(y), 1, m - 1)) + (d - 1)

\* bs is the BS date of the AD day with index dayIndex
IsCalendarDateOf(bs, dayIndex) ==
  /\ bs.year >= BS_BASE_YEAR
  /\ bs.month \in 1..12
  /\ bs.day \in 1..YearTable(bs.year)[bs.month]
  /\ CalendarDayIndex(bs.year, bs.month, bs.day) = dayIndex

\* the BS year the AD day with index dayIndex >= 0 lies in
RECURSIVE CalendarYearFrom(_, _)
CalendarYearFrom(y, dayIndex) ==
  IF dayIndex < CalendarDaysBeforeYear(y + 1) THEN y ELSE CalendarYearFrom(y + 1, dayIndex)

CalendarYearOf(dayIndex) == CalendarYearFrom(BS_BASE_YEAR, dayIndex)

----------------------------------------------------------------------------
(* C1 *)

\* C1: round trip BS -> AD -> BS.  With a data source installed, for every
\* triple isValidBSDate accepts whose year lies in the supported range,
\* convertBSToAD returns a Date and convertADToBS of that Date returns the
\* triple again.
C1_RoundTripBSToADToBS ==
  /\ ( /\ call.op = "convertBSToAD" /\ call.from = <<>>
       /\ ValidByRule(call.args[1], call.args[2], call.args[3])
       /\ InSupportedRange(call.args[1]) )
     => IsOk(call.out)
  /\ ( /\ call.op = "convertADToBS" /\ Len(call.from) = 3
       /\ InSupportedRange(call.from[1]) )
     => /\ IsOk(call.out)
        /\ call.out.val = NepaliDate(call.from[1], call.from[2], call.from[3])

----------------------------------------------------------------------------
(* C2 *)

\* C2: round trip AD -> BS -> AD.  For every AD calendar day on or after the
\* epoch whose BS year the installed data source supports, convertADToBS
\* returns a date and convertBSToAD of its year, month and day is a Date on
\* the same calendar day.
C2_RoundTripADToBSToAD ==
  /\ ( /\ call.op = "convertADToBS" /\ call.from = <<>>
       /\ LocalDay(ArgDate(call)) >= 0
       /\ HasYear(CalendarYearOf(LocalDay(ArgDate(call))))
       /\ InSupportedRange(CalendarYearOf(LocalDay(ArgDate(call)))) )
     => IsOk(call.out)
  /\ ( /\ call.op = "convertBSToAD" /\ Len(call.from) = 2
       /\ HasYear(call.args[1]) /\ InSupportedRange(call.args[1])
       /\ call.args[3] >= 1 )
     => /\ IsOk(call.out)
        /\ LocalDay(call.out.val) = LocalDay([day |-> call.from[1], ms |-> call.from[2]])

----------------------------------------------------------------------------
(* C3 *)

\* the installed data source holds exactly the years start..end, start > 2000
SubRangeSource ==
  /\ Installed
  /\ _dataSource._startYear > BS_BASE_YEAR
  /\ DOMAIN _dataSource._yearData = _dataSource._startYear.._dataSource._endYear

\* C3: conversion works with a data source that holds only a sub-range of
\* years start..end, start > 2000: convertADToBS of an AD day inside those
\* years and convertBSToAD of a valid date inside them return the correct
\* date and do not raise.
C3_SubRangeSourceConverts ==
  SubRangeSource =>
    /\ ( /\ call.op = "convertADToBS" /\ call.from = <<>>
         /\ LocalDay(ArgDate(call)) >= 0
         /\ HasYear(CalendarYearOf(LocalDay(ArgDate(call)))) )
       => /\ IsOk(call.out)
          /\ IsCalendarDateOf(call.out.val, LocalDay(ArgDate(call)))
    /\ ( /\ call.op = "convertBSToAD" /\ call.from = <<>>
         /\ ValidByRule(call.args[1], call.args[2], call.args[3]) )
       => /\ IsOk(call.out)
          /\ LocalDay(call.out.val)
               = CalendarDayIndex(call.args[1], call.args[2], call.args[3])

----------------------------------------------------------------------------
(* C4 *)

\* C4: convertBSToAD validates first.  Whenever isValidBSDate is false for
\* the triple (month outside 1..12, day < 1, year unknown to the data source,
\* or day beyond the month's length), convertBSToAD fails with the
\* invalid-date error and returns no date.
C4_InvalidDateRejected ==
  ( /\ call.op = "convertBSToAD"
    /\ \/ call.args[2] \notin 1..12
       \/ call.args[3] < 1
       \/ Installed /\ ~HasYear(call.args[1])
       \/ Installed /\ HasYear(call.args[1])
            /\ call.args[3] > MonthLength(call.args[1], call.args[2]) )
  => call.out = InvalidDate

\* convertBSToAD was given the day one past the end of month 1 of a year with
\* data, and threw
C4_Witness ==
  /\ call.op = "convertBSToAD" /\ call.out = InvalidDate
  /\ HasYear(call.args[1])
  /\ call.args[2] = 1
  /\ call.args[3] = MonthLength(call.args[1], 1) + 1

----------------------------------------------------------------------------
(* C5 *)

\* C5: with a data source installed, isValidBSDate(y, m, d) returns true
\* exactly when m is in 1..12, d >= 1, the data source has data for y and
\* d <= monthLength(y, m); so the last day of a month is valid, the day after
\* it is not, months 0 and 13 are not, and no date of an unknown year is.
C5_ValidExactly ==
  (call.op = "isValidBSDate" /\ Installed)
  => /\ IsOk(call.out)
     /\ call.out.val = ValidByRule(call.args[1], call.args[2], call.args[3])

\* isValidBSDate accepted the last day of a month of a known year
C5_Witness ==
  /\ call.op = "isValidBSDate"
  /\ HasYear(call.args[1])
  /\ call.args[2] \in 1..12
  /\ call.args[3] = MonthLength(call.args[1], call.args[2])
  /\ call.out = Ok(TRUE)

----------------------------------------------------------------------------
(* C6 *)

\* C6: isValidBSDate never raises: in every state, also before a data source
\* is installed, and for every triple it returns true or false.
C6_ValidNeverRaises ==
  call.op = "isValidBSDate" => (IsOk(call.out) /\ call.out.val \in BOOLEAN)

----------------------------------------------------------------------------
(* C7 *)

\* C7: while no data source is installed, every call of convertADToBS,
\* convertBSToAD, getDaysInBSMonth, getTotalDaysInBSYear and
\* getAvailableBSYears fails with the not-initialized error.
C7_NotInitializedReported ==
  ( /\ ~Installed
    /\ call.op \in {"convertADToBS", "convertBSToAD", "getDaysInBSMonth",
                     "getTotalDaysInBSYear", "getAvailableBSYears"} )
  => call.out = NotInitialized

----------------------------------------------------------------------------
(* C8 *)

\* C8: for every AD date strictly before 1943-04-14, convertADToBS raises no
\* error and returns year 2000, month 1 and day = (day offset from the
\* epoch) + 1, which is <= 0.
C8_PreEpochNotRejected ==
  (call.op = "convertADToBS" /\ LocalDay(ArgDate(call)) < 0)
  => /\ call.out = Ok(NepaliDate(BS_BASE_YEAR, 1, LocalDay(ArgDate(call)) + 1))
     /\ call.out.val.day <= 0

\* convertADToBS was given the day two days before the epoch, late in the
\* day, with a data source installed
C8_Witness ==
  /\ call.op = "convertADToBS"
  /\ Installed
  /\ LocalDay(ArgDate(call)) = 0 - 2
  /\ LocalFields(ArgDate(call), hostOffset).ms > 0
  /\ IsOk(call.out) /\ call.out.val.day = 0 - 1

----------------------------------------------------------------------------
(* C9 *)

\* bs is the last day of its month by the installed tables
IsLastDayOfMonth(bs) ==
  /\ HasYear(bs.year)
  /\ bs.month \in 1..12
  /\ bs.day = MonthLength(bs.year, bs.month)

\* the calendar successor of a BS date
Successor(bs) ==
  IF ~IsLastDayOfMonth(bs) THEN NepaliDate(bs.year, bs.month, bs.day + 1)
  ELSE IF bs.month < 12 THEN NepaliDate(bs.year, bs.month + 1, 1)
  ELSE NepaliDate(bs.year + 1, 1, 1)

\* the same wall-clock time on the next AD day
NextDay(date) == [day |-> date.day + 1, ms |-> date.ms]

\* C9: rollover.  Whenever two consecutive AD days both convert, the BS date
\* of the second is the calendar successor of the BS date of the first: the
\* next day of the month, or day 1 of the next month after the last day of a
\* month, or day 1 of month 1 of the next year after the last day of month 12.
C9_Rollover ==
  (call.op = "convertADToBS" /\ IsOk(call.out))
  => LET next == convertADToBS(_dataSource, hostOffset, NextDay(ArgDate(call)))
     IN  IsOk(next) => next.val = Successor(call.out.val)

\* convertADToBS returned the last day of month 12 of a year and the next AD
\* day converts to day 1 of month 1 of the following year, which has data
C9_Witness ==
  /\ call.op = "convertADToBS" /\ IsOk(call.out)
  /\ call.out.val.month = 12
  /\ IsLastDayOfMonth(call.out.val)
  /\ HasYear(call.out.val.year + 1)
  /\ convertADToBS(_dataSource, hostOffset, NextDay(ArgDate(call)))
       = Ok(NepaliDate(call.out.val.year + 1, 1, 1))

----------------------------------------------------------------------------
(* C10 *)

\* getDaysInBSMonth(y, 1) + ... + getDaysInBSMonth(y, m)
RECURSIVE MonthsSum(_, _)
MonthsSum(y, m) ==
  IF m = 0 THEN 0
  ELSE LET dim == getDaysInBSMonth(_dataSource, y, m)
       IN  MonthsSum(y, m - 1) + (IF IsOk(dim) THEN dim.val ELSE 0)

----------------------------------------------------------------------------
(* Data sources as client code can build them *)

\* arrays the constructors take as a year's table although they are no
\* month table: too short, and twelve entries with a 33
ShortTable == <<31, 31, 32>>

OverlongMonthTable == <<31, 32, 31, 32, 31, 30, 30, 30, 29, 30, 29, 33>>

SourceYears == BS_BASE_YEAR..(BS_BASE_YEAR + 2)

\* what client code may pass as the table of year y
RawTables(y) ==
  {YearTable(y)}
    \cup (IF y = BS_BASE_YEAR THEN {ShortTable}
          ELSE IF y = BS_BASE_YEAR + 1 THEN {OverlongMonthTable} ELSE {})

\* the `years` records client code may pass: any of the years, each with
\* one of its raw tables
RawYears ==
  UNION { {f \in [Y -> UNION {RawTables(y) : y \in Y}] :
             \A y \in Y : f[y] \in RawTables(y)} : Y \in SUBSET SourceYears }

\* the (start, end) pairs client code may declare: the range of the data,
\* narrower, wider, inverted, and the zeroes of a source that was not loaded
DeclaredRanges ==
  { <<BS_BASE_YEAR, BS_BASE_YEAR + 2>>, <<BS_BASE_YEAR + 1, BS_BASE_YEAR + 2>>,
    <<BS_BASE_YEAR - 1, BS_BASE_YEAR + 3>>, <<BS_BASE_YEAR + 2, BS_BASE_YEAR>>,
    <<0, 0>> }

\* every data source client code can hand to initializeCalendar
ConstructibleSources ==
  { InlineCalendarDataSource(years, r[1], r[2]) : years \in RawYears, r \in DeclaredRanges }
  \cup { initialize(JsonCalendarDataSource,
                    Response(TRUE, CalendarJson(years, r[1], r[2]))).val :
           years \in RawYears, r \in DeclaredRanges }
  \cup { JsonCalendarDataSource }

\* source.getYearData(year), called on the installed source
GetYearData(year) ==
  /\ call = NoCall
  /\ _dataSource # null
  /\ call' = Call("getYearData", <<year>>, <<>>, Ok(getYearData(_dataSource, year)))
  /\ UNCHANGED <<_dataSource, hostOffset, loaderVars, controllerVars>>

SourceNext ==
  \/ \E source \in ConstructibleSources : initializeCalendar(source)
  \/ \E y \in (BS_BASE_YEAR - 1)..(BS_BASE_YEAR + 3) : GetYearData(y)
  \/ GetAvailableBSYears
  \/ Discard

SourceSpec == Init /\ [][SourceNext]_vars

----------------------------------------------------------------------------
(* C11 *)

\* a present year table has twelve entries, each in 29..32
IsMonthTable(t) == Len(t) = MONTHS_PER_YEAR /\ \A i \in 1..Len(t) : t[i] \in 29..32

\* C11: data-source shape.  For every data source that can be constructed
\* and installed and every year, getYearData(year) is absent or a sequence
\* of exactly 12 integers, each between 29 and 32.
C11_YearDataShape ==
  call.op = "getYearData"
    => (call.out.val = noYearData \/ IsMonthTable(call.out.val))

----------------------------------------------------------------------------
(* C12 *)

\* the recorded lookup is what the installed source alone answers
AnsweredFromInstalled ==
  /\ ( call.op \in {"getDaysInBSMonth", "getTotalDaysInBSYear", "getAvailableBSYears"}
       /\ ~Installed ) => call.out = NotInitialized
  /\ ( call.op \in {"getDaysInBSMonth", "getTotalDaysInBSYear"}
       /\ Installed /\ ~HasYear(call.args[1]) ) => call.out = UnknownYear
  /\ ( call.op = "getDaysInBSMonth" /\ HasYear(call.args[1])
       /\ call.args[2] \in 1..MONTHS_PER_YEAR )
       => call.out = Ok(MonthLength(call.args[1], call.args[2]))
  /\ ( call.op = "getTotalDaysInBSYear" /\ HasYear(call.args[1]) )
       => call.out = Ok(SumSeq(_dataSource._yearData[call.args[1]]))
  /\ ( call.op = "getAvailableBSYears" /\ Installed )
       => /\ IsOk(call.out)
          /\ \A i \in 1..Len(call.out.val) : HasYear(call.out.val[i])
  /\ ( call.op = "isValidBSDate" /\ Installed )
       => call.out = Ok(ValidByRule(call.args[1], call.args[2], call.args[3]))

\* C12: the process-wide data source is written only by initializeCalendar
\* and swapped whole.  A step that is an initializeCalendar call leaves its
\* argument as the active source, every other step leaves the active source
\* as it was, and every lookup is answered from the source active at that
\* moment alone.
C12_SourceSwappedWholeByInitOnly ==
  [][ /\ call'.op = "initializeCalendar" => _dataSource' = call'.args[1]
      /\ call'.op # "initializeCalendar" => _dataSource' = _dataSource
      /\ AnsweredFromInstalled' ]_vars

\* a source with year tables has been replaced by a different source
C12_Witness ==
  /\ call.op = "initializeCalendar"
  /\ call.from[1] # null
  /\ DOMAIN call.from[1]._yearData # {}
  /\ call.args[1] # call.from[1]
  /\ _dataSource = call.args[1]

----------------------------------------------------------------------------
(* C13 *)

\* the years of the declared range the installed source has a table for
YearsWithData ==
  { y \in _dataSource._startYear.._dataSource._endYear : HasYear(y) }

\* C13: getAvailableBSYears returns, strictly ascending and without
\* duplicates, exactly the years y with supportedStartYear <= y <=
\* supportedEndYear that the data source has a table for; years without a
\* table are left out.
C13_AvailableYearsExact ==
  ( call.op = "getAvailableBSYears" /\ Installed )
    => /\ IsOk(call.out)
       /\ \A i \in 1..(Len(call.out.val) - 1) : call.out.val[i] < call.out.val[i + 1]
       /\ { call.out.val[i] : i \in 1..Len(call.out.val) } = YearsWithData

\* a list of two years is returned that skips a year of the declared range
\* for which the source has no table
C13_Witness ==
  /\ call.op = "getAvailableBSYears" /\ Installed
  /\ IsOk(call.out) /\ Len(call.out.val) = 2
  /\ \E y \in _dataSource._startYear.._dataSource._endYear :
       /\ ~HasYear(y)
       /\ call.out.val[1] < y /\ y < call.out.val[2]

----------------------------------------------------------------------------
(* Strings *)

\* A JS string is the sequence of its UTF-16 code units: 45 is '-', 48..57
\* are '0'..'9', 2406..2415 are the Devanagari digits.

NEPALI_MONTHS_EN ==
  << <<66, 97, 105, 115, 97, 107, 104>>,
     <<74, 101, 115, 116, 104, 97>>,
     <<65, 115, 97, 114>>,
     <<83, 104, 114, 97, 119, 97, 110>>,
     <<66, 104, 97, 100, 114, 97>>,
     <<65, 115, 104, 119, 105, 110>>,
     <<75, 97, 114, 116, 105, 107>>,
     <<77, 97, 110, 103, 115, 105, 114>>,
     <<80, 111, 117, 115, 104>>,
     <<77, 97, 103, 104>>,
     <<70, 97, 108, 103, 117, 110>>,
     <<67, 104, 97, 105, 116, 114, 97>> >>

NEPALI_MONTHS_NE ==
  << <<2348, 2376, 2358, 2366, 2326>>,
     <<2332, 2375, 2336>>,
     <<2309, 2360, 2366, 2352>>,
     <<2360, 2366, 2313, 2344>>,
     <<2349, 2342, 2380>>,
     <<2309, 2360, 2379, 2332>>,
     <<2325, 2366, 2352, 2381, 2340, 2367, 2325>>,
     <<2350, 2306, 2360, 2367, 2352>>,
     <<2346, 2380, 2359>>,
     <<2350, 2366, 2328>>,
     <<2347, 2366, 2327, 2369, 2344>>,
     <<2330, 2376, 2340, 2381, 2352>> >>

NEPALI_DAYS_EN ==
  << <<65, 97, 105, 116, 97, 98, 97, 114>>,
     <<83, 111, 109, 98, 97, 114>>,
     <<77, 97, 110, 103, 97, 108, 98, 97, 114>>,
     <<66, 117, 100, 104, 97, 98, 97, 114>>,
     <<66, 105, 104, 105, 98, 97, 114>>,
     <<83, 104, 117, 107, 114, 97, 98, 97, 114>>,
     <<83, 104, 97, 110, 105, 98, 97, 114>> >>

NEPALI_DAYS_NE ==
  << <<2310, 2311, 2340, 2348, 2366, 2352>>,
     <<2360, 2379, 2350, 2348, 2366, 2352>>,
     <<2350, 2306, 2327, 2354, 2348, 2366, 2352>>,
     <<2348, 2369, 2343, 2348, 2366, 2352>>,
     <<2348, 2367, 2361, 2367, 2348, 2366, 2352>>,
     <<2358, 2369, 2325, 2381, 2352, 2348, 2366, 2352>>,
     <<2358, 2344, 2367, 2348, 2366, 2352>> >>

NEPALI_DIGITS ==
  << <<2406>>,
     <<2407>>,
     <<2408>>,
     <<2409>>,
     <<2410>>,
     <<2411>>,
     <<2412>>,
     <<2413>>,
     <<2414>>,
     <<2415>> >>

JustNowPhrase == <<2361, 2366, 2354, 2376>>

SecondsSuffix == <<32, 2360, 2375, 2325, 2375, 2339, 2381, 2337, 32, 2309, 2327, 2366, 2337, 2367>>

MinutesSuffix == <<32, 2350, 2367, 2344, 2375, 2335, 32, 2309, 2327, 2366, 2337, 2367>>

HoursSuffix == <<32, 2328, 2339, 2381, 2335, 2366, 32, 2309, 2327, 2366, 2337, 2367>>

undefinedText == <<117, 110, 100, 101, 102, 105, 110, 101, 100>>

RECURSIVE DecimalDigits(_)
DecimalDigits(n) ==
  IF n < 10 THEN <<48 + n>> ELSE DecimalDigits(n \div 10) \o <<48 + (n % 10)>>

\* String(num) of an integer
String(num) == IF num < 0 THEN <<45>> \o DecimalDigits(0 - num) ELSE DecimalDigits(num)

\* a JS number: NaN or an integer
NaN == [nan |-> TRUE, val |-> 0]

Number(v) == [nan |-> FALSE, val |-> v]

isNaN(x) == x.nan

\* parseInt(ch, 10) of one code unit
parseInt(ch) == IF ch \in 48..57 THEN Number(ch - 48) ELSE NaN

\* parts.join('')
RECURSIVE Join(_)
Join(parts) == IF parts = <<>> THEN <<>> ELSE Head(parts) \o Join(Tail(parts))

\* what a template literal renders for a value read out of an array
Rendered(r) == IF IsOk(r) THEN r.val ELSE undefinedText

----------------------------------------------------------------------------
(* Nepal time and formatting *)

toNepalTime(date) == AddMs(date, NEPAL_OFFSET_MS)

\* mutant: the time of day is shifted back, the day is not
fromNepalTime_sameDay(date) ==
  [day |-> date.day, ms |-> (date.ms - NEPAL_OFFSET_MS) % MS_PER_DAY]

fromNepalTime(date) == AddMs(date, 0 - NEPAL_OFFSET_MS)

\* mutant: the host-local date fields of the shifted instant are read
getCurrentNepaliDate_localFields(S, off, now) ==
  LET nep == toNepalTime(now)
  IN  convertADToBS(S, off, NewLocalDate(LocalFields(nep, off).day, 0, off))

\* `now` is the instant new Date() returns
getCurrentNepaliDate(S, off, now) ==
  LET nep == toNepalTime(now)
  IN  convertADToBS(S, off, NewLocalDate(nep.day, 0, off))

\* mutant: the minus sign is dropped
toNepaliDigits_dropsSign(num) ==
  LET str == String(num)
  IN  Join([i \in 1..Len(str) |->
              LET d == parseInt(str[i])
              IN  IF isNaN(d) THEN <<>> ELSE NEPALI_DIGITS[d.val + 1]])

toNepaliDigits(num) ==
  LET str == String(num)
  IN  Join([i \in 1..Len(str) |->
              LET d == parseInt(str[i])
              IN  IF isNaN(d) THEN <<str[i]>> ELSE NEPALI_DIGITS[d.val + 1]])

_bsDateString(nd) ==
  toNepaliDigits(nd.day) \o <<32>> \o Rendered(Index(NEPALI_MONTHS_NE, nd.month - 1))
    \o <<32>> \o toNepaliDigits(nd.year)

\* an Invalid Date: getTime() is NaN
InvalidDateObject == [time |-> NaN]

\* a < b for two instants
Before(a, b) == a.day < b.day \/ (a.day = b.day /\ a.ms < b.ms)

\* a.getTime() - b.getTime()
DiffMs(a, b) == (a.day - b.day) * MS_PER_DAY + (a.ms - b.ms)

\* return _bsDateString(convertADToBS(dateNep)) inside the try block: an
\* error convertADToBS throws ends in the catch clause
absoluteDate(S, off, dateNep) ==
  LET bs == convertADToBS(S, off, dateNep)
  IN  IF IsOk(bs) THEN _bsDateString(bs.val) ELSE JustNowPhrase

\* mutant: the counts are rounded to the nearest unit
relativePhrase_roundsToNearest(diffMs, absolute) ==
  LET sec == (diffMs + 500) \div 1000
      min == (sec + 30) \div 60
      hr  == (min + 30) \div 60
  IN  IF diffMs < 1000 THEN JustNowPhrase
      ELSE IF sec < 60 THEN toNepaliDigits(sec) \o SecondsSuffix
      ELSE IF min < 60 THEN toNepaliDigits(min) \o MinutesSuffix
      ELSE IF hr < 24 THEN toNepaliDigits(hr) \o HoursSuffix
      ELSE absolute

\* mutant: only a difference of zero or less is "just now"
relativePhrase_onlyZeroIsJustNow(diffMs, absolute) ==
  LET sec == diffMs \div 1000
      min == sec \div 60
      hr  == min \div 60
  IN  IF diffMs <= 0 THEN JustNowPhrase
      ELSE IF sec < 60 THEN toNepaliDigits(sec) \o SecondsSuffix
      ELSE IF min < 60 THEN toNepaliDigits(min) \o MinutesSuffix
      ELSE IF hr < 24 THEN toNepaliDigits(hr) \o HoursSuffix
      ELSE absolute

\* the part of getRelativeTimeInNepali from `if (diffMs < 1000)` on;
\* `absolute` is what the last return statement gives
relativePhrase(diffMs, absolute) ==
  LET sec == diffMs \div 1000
      min == sec \div 60
      hr  == min \div 60
  IN  IF diffMs < 1000 THEN JustNowPhrase
      ELSE IF sec < 60 THEN toNepaliDigits(sec) \o SecondsSuffix
      ELSE IF min < 60 THEN toNepaliDigits(min) \o MinutesSuffix
      ELSE IF hr < 24 THEN toNepaliDigits(hr) \o HoursSuffix
      ELSE absolute

\* mutant: the midnight is taken of the instant before the shift
todayMidnight_ofUnshiftedNow(nowNep) == [day |-> fromNepalTime(nowNep).day, ms |-> 0]

\* new Date(nowNep) with setUTCHours(0, 0, 0, 0)
todayMidnight(nowNep) == [day |-> nowNep.day, ms |-> 0]

\* mutant: the input is compared with the instant 24 hours before now
\* instead of with the Nepal-local midnight
getRelativeTimeInNepali_last24h(S, off, now, date) ==
  IF date = null THEN JustNowPhrase
  ELSE IF date = InvalidDateObject THEN JustNowPhrase
  ELSE LET nowNep  == toNepalTime(now)
           dateNep == toNepalTime(date)
           dayAgo  == [day |-> nowNep.day - 1, ms |-> nowNep.ms]
       IN  IF Before(dateNep, dayAgo)
           THEN absoluteDate(S, off, dateNep)
           ELSE relativePhrase(DiffMs(nowNep, dateNep), absoluteDate(S, off, dateNep))

\* `date` is null, an Invalid Date or a Date (a string argument is the Date
\* or Invalid Date it parses to); `now` is the instant new Date() returns
getRelativeTimeInNepali(S, off, now, date) ==
  IF date = null THEN JustNowPhrase
  ELSE IF date = InvalidDateObject THEN JustNowPhrase
  ELSE LET nowNep  == toNepalTime(now)
           dateNep == toNepalTime(date)
       IN  IF Before(dateNep, todayMidnight(nowNep))
           THEN absoluteDate(S, off, dateNep)
           ELSE relativePhrase(DiffMs(nowNep, dateNep), absoluteDate(S, off, dateNep))

----------------------------------------------------------------------------
(* The clock: calls that read the current time *)

\* the input of a relative-time call is up to MaxDaysBack days older than now
MaxDaysBack == 2

\* UTC time of day of the Nepal-local midnight
NepalMidnightUTC == MS_PER_DAY - NEPAL_OFFSET_MS

\* the instants new Date() returns: around the epoch day, around the first
\* new year of the tables and at the end of the days they cover, each just
\* before and at the UTC and the Nepal-local midnight
ClockDays == {0, 1, 366, DaysOfYears}

ClockTimes == {0, NepalMidnightUTC - 1, NepalMidnightUTC, MS_PER_DAY - 1}

ClockInstants == { [day |-> d, ms |-> t] : d \in ClockDays, t \in ClockTimes }

\* how long before `now` (ms within a day) the input is: in the future,
\* around every threshold of the function, hours back and nearly a day back
MsBack ==
  {0 - 1000, 0, 999, 1000, 59999, 60000, 3599999, 3600000, 7200001,
   NEPAL_OFFSET_MS, MS_PER_DAY - 1}

\* the inputs offered with `now`: up to a day ahead of it, up to MaxDaysBack
\* days and MsBack behind it
InputsBefore(now) ==
  { AddMs([day |-> now.day - k, ms |-> now.ms], 0 - back) :
      k \in (0 - 1)..MaxDaysBack, back \in MsBack }

ToNepalTime(t) ==
  /\ call = NoCall
  /\ call' = Call("toNepalTime", <<t>>, <<>>, Ok(toNepalTime(t)))
  /\ UNCHANGED <<_dataSource, hostOffset, loaderVars, controllerVars>>

\* fromNepalTime(toNepalTime(t))
FromNepalTimeBack ==
  /\ call.op = "toNepalTime"
  /\ call' = Call("fromNepalTime", <<call.out.val>>, call.args, Ok(fromNepalTime(call.out.val)))
  /\ UNCHANGED <<_dataSource, hostOffset, loaderVars, controllerVars>>

GetCurrentNepaliDate(now) ==
  /\ call = NoCall
  /\ call' = Call("getCurrentNepaliDate", <<now>>, <<>>,
                  getCurrentNepaliDate(_dataSource, hostOffset, now))
  /\ UNCHANGED <<_dataSource, hostOffset, loaderVars, controllerVars>>

GetRelativeTimeInNepali(now, date) ==
  /\ call = NoCall
  /\ call' = Call("getRelativeTimeInNepali", <<now, date>>, <<>>,
                  Ok(getRelativeTimeInNepali(_dataSource, hostOffset, now, date)))
  /\ UNCHANGED <<_dataSource, hostOffset, loaderVars, controllerVars>>

ClockNext ==
  \/ \E source \in DataSources : initializeCalendar(source)
  \/ \E t \in ClockInstants : ToNepalTime(t)
  \/ FromNepalTimeBack
  \/ \E now \in ClockInstants : GetCurrentNepaliDate(now)
  \/ \E now \in ClockInstants :
       \E date \in InputsBefore(now) \cup {null, InvalidDateObject} :
         GetRelativeTimeInNepali(now, date)
  \/ Discard

ClockSpec == Init /\ [][ClockNext]_vars

----------------------------------------------------------------------------
(* C14 *)

\* an instant of the model in its normal form
IsInstant(d) == d.ms \in 0..(MS_PER_DAY - 1)

\* C14: timezone shift round trip.  For every timestamp t, toNepalTime(t) is
\* t advanced by exactly 345 minutes (5 hours 45 minutes), and
\* fromNepalTime(toNepalTime(t)) is t again, to the millisecond.
C14_NepalTimeRoundTrip ==
  /\ call.op = "toNepalTime"
       => /\ IsInstant(call.out.val)
          /\ DiffMs(call.out.val, call.args[1]) = 345 * 60 * 1000
  /\ ( call.op = "fromNepalTime" /\ call.from # <<>> )
       => call.out.val = call.from[1]

\* a round trip that went over a UTC midnight and came back
C14_Witness ==
  /\ call.op = "fromNepalTime" /\ call.from # <<>>
  /\ call.args[1].day = call.from[1].day + 1
  /\ call.out.val = call.from[1]

----------------------------------------------------------------------------
(* C15 *)

\* the calendar day that contains now + 5 h 45 min on the UTC axis
NepalDayOf(now) ==
  IF now.ms + 345 * 60 * 1000 >= MS_PER_DAY THEN now.day + 1 ELSE now.day

\* C15: "today" does not depend on the host timezone.  At every instant and
\* on every host, getCurrentNepaliDate returns what convertADToBS returns for
\* the calendar day that contains now + 5 h 45 min on the UTC axis (here: as
\* a host at UTC converts that day), so hosts in different timezones obtain
\* the same BS date at the same instant, and the date changes exactly at the
\* Nepal-local midnight.
C15_TodayIndependentOfHost ==
  call.op = "getCurrentNepaliDate"
    => /\ call.out = convertADToBS(_dataSource, 0, DateUTC(NepalDayOf(call.args[1])))
       /\ IsOk(call.out) => IsCalendarDateOf(call.out.val, NepalDayOf(call.args[1]))

\* at the Nepal-local midnight, on a host west of UTC where it is still the
\* afternoon of the day before, today is the BS date of the new Nepal day
C15_Witness ==
  /\ call.op = "getCurrentNepaliDate" /\ IsOk(call.out)
  /\ hostOffset < 0
  /\ call.args[1].ms = NepalMidnightUTC
  /\ LocalDay(call.args[1]) = call.args[1].day
  /\ IsCalendarDateOf(call.out.val, call.args[1].day + 1)

----------------------------------------------------------------------------
(* C16 *)

IsDate(x) == "day" \in DOMAIN x

\* the recorded call is getRelativeTimeInNepali of a Date
RelativeTimeOfDate ==
  call.op = "getRelativeTimeInNepali" /\ IsDate(call.args[2])

\* the input lies before the Nepal-local midnight that starts the current
\* Nepal-local day
BeforeTodayInNepal == NepalDayOf(call.args[2]) < NepalDayOf(call.args[1])

\* a number in Devanagari digits, with the minus sign of a negative number
IsDevanagariNumber(str) ==
  /\ Len(str) >= 1
  /\ \A i \in 1..Len(str) : str[i] \in 2406..2415 \/ (i = 1 /\ str[i] = 45 /\ Len(str) > 1)

\* Devanagari-digit day, Nepali month name, Devanagari-digit year
IsAbsoluteDateString(str) ==
  \E m \in 1..MONTHS_PER_YEAR :
    LET name == <<32>> \o NEPALI_MONTHS_NE[m] \o <<32>>
    IN  \E i \in 1..Len(str) :
          /\ i + Len(name) - 1 <= Len(str)
          /\ SubSeq(str, i, i + Len(name) - 1) = name
          /\ IsDevanagariNumber(SubSeq(str, 1, i - 1))
          /\ IsDevanagariNumber(SubSeq(str, i + Len(name), Len(str)))

EndsWith(str, suffix) ==
  /\ Len(str) >= Len(suffix)
  /\ SubSeq(str, Len(str) - Len(suffix) + 1, Len(str)) = suffix

IsRelativePhrase(str) ==
  EndsWith(str, SecondsSuffix) \/ EndsWith(str, MinutesSuffix) \/ EndsWith(str, HoursSuffix)

ShiftedInputInBS ==
  convertADToBS(_dataSource, hostOffset, AddMs(call.args[2], 345 * 60 * 1000))

----------------------------------------------------------------------------
(* C17 *)

\* now - input, in milliseconds
InputAge == DiffMs(call.args[1], call.args[2])

SameDayInNepal == NepalDayOf(call.args[2]) = NepalDayOf(call.args[1])

\* a natural number in Devanagari digits
RECURSIVE DevanagariNumeral(_)
DevanagariNumeral(n) ==
  IF n < 10 THEN <<2406 + n>>
  ELSE DevanagariNumeral(n \div 10) \o <<2406 + (n % 10)>>

\* C17: relative-time buckets.  For an input on the same Nepal-local day as
\* now with diff = now - input >= 1 second, the result is floor(diff in
\* seconds) with the seconds suffix when diff < 60 s, else floor(diff in
\* minutes) with the minutes suffix when diff < 60 min, else floor(diff in
\* hours) with the hours suffix; the count is in Devanagari digits and
\* exactly one bucket applies.
C17_RelativeBuckets ==
  ( RelativeTimeOfDate /\ SameDayInNepal /\ InputAge >= 1000 )
    => /\ InputAge < 60000
            => call.out.val = DevanagariNumeral(InputAge \div 1000) \o SecondsSuffix
       /\ ( InputAge >= 60000 /\ InputAge < 3600000 )
            => call.out.val = DevanagariNumeral(InputAge \div 60000) \o MinutesSuffix
       /\ InputAge >= 3600000
            => call.out.val = DevanagariNumeral(InputAge \div 3600000) \o HoursSuffix
       /\ Cardinality({ suffix \in {SecondsSuffix, MinutesSuffix, HoursSuffix} :
                          EndsWith(call.out.val, suffix) }) = 1

\* an input one millisecond short of a minute old is 59 seconds old
C17_Witness ==
  /\ RelativeTimeOfDate /\ SameDayInNepal
  /\ InputAge = 59999
  /\ call.out.val = <<2411, 2415>> \o SecondsSuffix

----------------------------------------------------------------------------
(* C18 *)

\* C18: "just now".  getRelativeTimeInNepali returns the just-now phrase for
\* an absent input, and for every input that is not before the current
\* Nepal-local midnight and whose diff = now - input is less than 1 second,
\* every timestamp in the future included.
C18_JustNow ==
  /\ ( call.op = "getRelativeTimeInNepali" /\ call.args[2] = null )
       => call.out.val = JustNowPhrase
  /\ ( RelativeTimeOfDate /\ ~BeforeTodayInNepal /\ InputAge < 1000 )
       => call.out.val = JustNowPhrase

\* an input 999 ms old, on the same Nepal-local day, is "just now"
C18_Witness ==
  /\ RelativeTimeOfDate /\ SameDayInNepal
  /\ InputAge = 999
  /\ call.out.val = JustNowPhrase

----------------------------------------------------------------------------
(* Formatting *)

\* months[month - 1] ?? ''
getNepaliMonthName(month, locale) ==
  LET months == IF locale = "ne" THEN NEPALI_MONTHS_NE ELSE NEPALI_MONTHS_EN
      name   == Index(months, month - 1)
  IN  IF IsOk(name) THEN name.val ELSE <<>>

\* mutant: day and year are transliterated in the 'ne' locale
formatNepaliDate_transliterates(date, locale) ==
  LET months == IF locale = "ne" THEN NEPALI_MONTHS_NE ELSE NEPALI_MONTHS_EN
  IN  Rendered(Index(months, date.month - 1)) \o <<32>>
        \o (IF locale = "ne" THEN toNepaliDigits(date.day) ELSE String(date.day))
        \o <<44, 32>>
        \o (IF locale = "ne" THEN toNepaliDigits(date.year) ELSE String(date.year))

\* `${months[date.month - 1]} ${date.day}, ${date.year}`
formatNepaliDate(date, locale) ==
  LET months == IF locale = "ne" THEN NEPALI_MONTHS_NE ELSE NEPALI_MONTHS_EN
  IN  Rendered(Index(months, date.month - 1)) \o <<32>> \o String(date.day)
        \o <<44, 32>> \o String(date.year)

\* date.getDay() on a host at offset `off`: 1943-04-14 was a Wednesday
getDay(date, off) == (LocalFields(date, off).day + 3) % 7

getNepaliDayName(date, off, locale) ==
  LET days == IF locale = "ne" THEN NEPALI_DAYS_NE ELSE NEPALI_DAYS_EN
  IN  days[getDay(date, off) + 1]

\* adDate is null when the optional argument is left out
formatNepaliDateWithDay(S, off, nepaliDate, adDate) ==
  LET ad == IF adDate = null
            THEN convertBSToAD(S, off, nepaliDate.year, nepaliDate.month, nepaliDate.day)
            ELSE Ok(adDate)
  IN  IF ~IsOk(ad) THEN ad
      ELSE Ok(toNepaliDigits(nepaliDate.day) \o <<32>>
                \o Rendered(Index(NEPALI_MONTHS_NE, nepaliDate.month - 1)) \o <<32>>
                \o toNepaliDigits(nepaliDate.year) \o <<44, 32>>
                \o getNepaliDayName(ad.val, off, "ne"))

\* the integers offered to toNepaliDigits: -MaxNumber..MaxNumber and years
MaxNumber == 110

FormatNumbers ==
  (0 - MaxNumber)..MaxNumber \cup {1000, 1999, 2000, 2082, 0 - 2082, 9999, 10000}

Locales == {"en", "ne"}

\* the NepaliDate objects offered to the formatting functions
FormatDates ==
  { NepaliDate(y, m, d) :
      y \in {BS_BASE_YEAR, BS_BASE_YEAR + 1, 2082}, m \in InputMonths, d \in {0, 1, 8, 30, 33} }

ToNepaliDigits(num) ==
  /\ call = NoCall
  /\ call' = Call("toNepaliDigits", <<num>>, <<>>, Ok(toNepaliDigits(num)))
  /\ UNCHANGED <<_dataSource, hostOffset, loaderVars, controllerVars>>

GetNepaliMonthName(month, locale) ==
  /\ call = NoCall
  /\ call' = Call("getNepaliMonthName", <<month, locale>>, <<>>,
                  Ok(getNepaliMonthName(month, locale)))
  /\ UNCHANGED <<_dataSource, hostOffset, loaderVars, controllerVars>>

FormatNepaliDate(date, locale) ==
  /\ call = NoCall
  /\ call' = Call("formatNepaliDate", <<date, locale>>, <<>>,
                  Ok(formatNepaliDate(date, locale)))
  /\ UNCHANGED <<_dataSource, hostOffset, loaderVars, controllerVars>>

FormatNepaliDateWithDay(nepaliDate, adDate) ==
  /\ call = NoCall
  /\ call' = Call("formatNepaliDateWithDay", <<nepaliDate, adDate>>, <<>>,
                  formatNepaliDateWithDay(_dataSource, hostOffset, nepaliDate, adDate))
  /\ UNCHANGED <<_dataSource, hostOffset, loaderVars, controllerVars>>

FormatNext ==
  \/ \E source \in DataSources : initializeCalendar(source)
  \/ \E num \in FormatNumbers : ToNepaliDigits(num)
  \/ \E m \in InputMonths, locale \in Locales : GetNepaliMonthName(m, locale)
  \/ \E date \in FormatDates, locale \in Locales : FormatNepaliDate(date, locale)
  \/ \E date \in FormatDates :
       \E adDate \in {null, NewLocalDate(0, 0, hostOffset), NewLocalDate(1, 0, hostOffset)} :
         FormatNepaliDateWithDay(date, adDate)
  \/ \E now \in {DateUTC(1)} :
       \E date \in {null, InvalidDateObject, DateUTC(0), DateUTC(1), DateUTC(2)} :
         GetRelativeTimeInNepali(now, date)
  \/ Discard

FormatSpec == Init /\ [][FormatNext]_vars

----------------------------------------------------------------------------
(* C19 *)

MonthOutOfRange(m) == m < 1 \/ m > MONTHS_PER_YEAR

\* C19: formatting functions never raise and degrade to safe defaults.  For
\* a month outside 1..12 getNepaliMonthName and formatNepaliDate do not raise
\* and the month-name part of their output is the empty string;
\* formatNepaliDateWithDay and getRelativeTimeInNepali return a string
\* instead of raising for out-of-range or malformed inputs.
C19_FormattingNeverRaises ==
  /\ ( call.op = "getNepaliMonthName" /\ MonthOutOfRange(call.args[1]) )
       => call.out = Ok(<<>>)
  /\ ( call.op = "formatNepaliDate" /\ MonthOutOfRange(call.args[1].month) )
       => call.out = Ok(<<32>> \o String(call.args[1].day) \o <<44, 32>>
                          \o String(call.args[1].year))
  /\ call.op \in {"formatNepaliDateWithDay", "getRelativeTimeInNepali"}
       => IsOk(call.out)

----------------------------------------------------------------------------
(* C20 *)

\* the inverse of the digit table on one code unit
InverseDigit(c) ==
  IF \E d \in 0..9 : NEPALI_DIGITS[d + 1] = <<c>>
  THEN 48 + (CHOOSE d \in 0..9 : NEPALI_DIGITS[d + 1] = <<c>>)
  ELSE c

\* C20: toNepaliDigits maps every decimal digit of the stringified integer
\* to the Devanagari numeral at that index of the 10-symbol table and leaves
\* every other character (the minus sign) unchanged, keeping length and
\* order; the table is a bijection on the digits, so applying the inverse
\* table to the output gives the decimal string back.
C20_DigitsTransliterated ==
  call.op = "toNepaliDigits"
    => LET str == String(call.args[1])
           res == call.out.val
       IN  /\ Len(res) = Len(str)
           /\ \A i \in 1..Len(str) :
                IF str[i] \in 48..57
                THEN /\ <<res[i]>> = NEPALI_DIGITS[str[i] - 48 + 1]
                     /\ res[i] = 2406 + (str[i] - 48)
                ELSE res[i] = str[i]
           /\ \A d, e \in 1..10 : d # e => NEPALI_DIGITS[d] # NEPALI_DIGITS[e]
           /\ [i \in 1..Len(res) |-> InverseDigit(res[i])] = str

\* -12 becomes the minus sign followed by the numerals for 1 and 2
C20_Witness ==
  /\ call.op = "toNepaliDigits"
  /\ call.args[1] = 0 - 12
  /\ call.out.val = <<45, 2407, 2408>>

----------------------------------------------------------------------------
(* C21 *)

\* a natural number in ASCII decimal digits
RECURSIVE AsciiNumeral(_)
AsciiNumeral(n) ==
  IF n < 10 THEN <<48 + n>> ELSE AsciiNumeral(n \div 10) \o <<48 + (n % 10)>>

\* C21: formatNepaliDate(date, locale) returns "<MonthName> <day>, <year>",
\* MonthName being entry month-1 of the Nepali-script table when locale is
\* 'ne' and of the romanised table otherwise, day and year in plain ASCII
\* decimal digits in both locales.
C21_FormatNepaliDate ==
  ( call.op = "formatNepaliDate" /\ call.args[1].month \in 1..MONTHS_PER_YEAR )
    => call.out =
         Ok((IF call.args[2] = "ne" THEN NEPALI_MONTHS_NE[call.args[1].month]
                                    ELSE NEPALI_MONTHS_EN[call.args[1].month])
            \o <<32>> \o AsciiNumeral(call.args[1].day)
            \o <<44, 32>> \o AsciiNumeral(call.args[1].year))

\* {2082, 11, 8} gives 'Falgun 8, 2082' for 'en'
C21_Witness ==
  /\ call.op = "formatNepaliDate"
  /\ call.args = <<NepaliDate(2082, 11, 8), "en">>
  /\ call.out.val = <<70, 97, 108, 103, 117, 110, 32, 56, 44, 32, 50, 48, 56, 50>>

----------------------------------------------------------------------------
(* Loading: initialize() calls on one JsonCalendarDataSource instance *)

\* the documents the URL may answer with
JsonDocuments ==
  { CalendarJson([y \in {BS_BASE_YEAR} |-> YearTable(y)], BS_BASE_YEAR, BS_BASE_YEAR),
    CalendarJson([y \in {BS_BASE_YEAR + 1} |-> YearTable(y)],
                 BS_BASE_YEAR + 1, BS_BASE_YEAR + 1) }

\* the part of initialize after `await response.json()`
loaded(self, data) ==
  [isNull |-> FALSE,
   _yearData |-> [y \in DOMAIN self._yearData \cup DOMAIN data.years |->
                    IF y \in DOMAIN data.years THEN data.years[y] ELSE self._yearData[y]],
   _startYear |-> data.supportedRange.start,
   _endYear |-> data.supportedRange.end,
   _initialized |-> TRUE]

\* initialize() is called and runs up to `await fetch(jsonUrl)`
InitializeCalled(t) ==
  /\ tasks[t].pc = "idle"
  /\ IF jsonSource._initialized
     THEN /\ tasks' = [tasks EXCEPT ![t] = Task("done", <<>>)]
          /\ UNCHANGED requests
     ELSE /\ tasks' = [tasks EXCEPT ![t] = Task("fetching", <<>>)]
          /\ requests' = requests + 1
  /\ UNCHANGED <<_dataSource, hostOffset, call, jsonSource, controllerVars>>

\* the fetch settles: the call throws on a response that is not ok and goes
\* on to `await response.json()` otherwise
FetchSettled(t, response) ==
  /\ tasks[t].pc = "fetching"
  /\ tasks' = [tasks EXCEPT ![t] =
                 IF response.ok THEN Task("parsing", response.data)
                 ELSE Task("failed", <<>>)]
  /\ UNCHANGED <<_dataSource, hostOffset, call, jsonSource, requests, controllerVars>>

\* fetch() or response.json() rejects
Rejected(t) ==
  /\ tasks[t].pc \in {"fetching", "parsing"}
  /\ tasks' = [tasks EXCEPT ![t] = Task("failed", <<>>)]
  /\ UNCHANGED <<_dataSource, hostOffset, call, jsonSource, requests, controllerVars>>

\* response.json() resolves and the call runs to its end
JsonParsed(t) ==
  /\ tasks[t].pc = "parsing"
  /\ jsonSource' = loaded(jsonSource, tasks[t].data)
  /\ tasks' = [tasks EXCEPT ![t] = Task("done", <<>>)]
  /\ UNCHANGED <<_dataSource, hostOffset, call, requests, controllerVars>>

LoaderNext ==
  \/ \E t \in Tasks : InitializeCalled(t)
  \/ \E t \in Tasks : \E response \in {Response(TRUE, d) : d \in JsonDocuments}
                                        \cup {Response(FALSE, <<>>)} :
       FetchSettled(t, response)
  \/ \E t \in Tasks : Rejected(t)
  \/ \E t \in Tasks : JsonParsed(t)

LoaderSpec == Init /\ [][LoaderNext]_vars

----------------------------------------------------------------------------
(* C22 *)

\* the initialize() calls that ended in an error
FailedCalls == { t \in Tasks : tasks[t].pc = "failed" }

\* C22: JsonCalendarDataSource fetches its JSON at most once per instance.
\* Under any number and interleaving of initialize() calls on one instance,
\* a second call started while the first still awaits the response included,
\* the resource is requested once; only a fetch that failed is followed by
\* another request, and a failed fetch leaves the instance uninitialised
\* with no year data.
C22_FetchedAtMostOnce ==
  /\ requests <= Cardinality(FailedCalls) + 1
  /\ ~jsonSource._initialized => DOMAIN jsonSource._yearData = {}

----------------------------------------------------------------------------
(* C23 *)

\* the call went past `if (dateNep < todayMidnight)`
PassedMidnightCheck ==
  /\ RelativeTimeOfDate
  /\ ~Before(toNepalTime(call.args[2]), todayMidnight(toNepalTime(call.args[1])))

\* a value no return statement gives
NotReturned == <<>>

\* C23: the 24-hour fallback of getRelativeTimeInNepali is unreachable. In
\* every call that passes the midnight check (input not before the current
\* Nepal-local midnight) diff = now - input is strictly less than 24 hours,
\* so the result is the one of the "just now", seconds, minutes or hours
\* return and the absolute-date return after the hours bucket is not taken.
C23_FallbackUnreachable ==
  PassedMidnightCheck =>
    LET diffMs == DiffMs(toNepalTime(call.args[1]), toNepalTime(call.args[2]))
    IN  /\ diffMs < MS_PER_DAY
        /\ (diffMs \div 1000) \div 3600 < 24
        /\ call.out.val = relativePhrase(diffMs, NotReturned)

\* now is the last millisecond of a Nepal-local day and the input its first:
\* the largest difference that passes the check, answered from the hours bucket
C23_Witness ==
  /\ PassedMidnightCheck
  /\ DiffMs(call.args[1], call.args[2]) = MS_PER_DAY - 1
  /\ call.out.val = toNepaliDigits(23) \o HoursSuffix

----------------------------------------------------------------------------
(* C24 *)

\* C24: convertADToBS only returns valid dates for inputs on or after the
\* epoch.  For every AD date on or after 1943-04-14 and every installed data
\* source, convertADToBS either fails with the unknown-year error or returns
\* a triple (year, month, day) for which isValidBSDate is true: the year is
\* in the data source, the month in 1..12 and the day in 1..monthLength.
\* In particular the AD day right after the last day of the last year with
\* data is not returned as a date in a year without data.
C24_ReturnsValidOrUnknownYear ==
  ( /\ call.op = "convertADToBS"
    /\ Installed
    /\ LocalDay(ArgDate(call)) >= 0 )
    => \/ call.out = UnknownYear
       \/ /\ IsOk(call.out)
          /\ ValidByRule(call.out.val.year, call.out.val.month, call.out.val.day)

----------------------------------------------------------------------------
(* C25 *)

\* the years after y the installed source holds
LaterYears(y) == { z \in DOMAIN _dataSource._yearData : z > y }

\* the valid BS date that follows the valid date y/m/d in the installed
\* source, in the lexicographic order of (year, month, day); null after the
\* last one
NextValidDate(y, m, d) ==
  IF d < MonthLength(y, m) THEN NepaliDate(y, m, d + 1)
  ELSE IF m < MONTHS_PER_YEAR THEN NepaliDate(y, m + 1, 1)
  ELSE IF LaterYears(y) = {} THEN null
  ELSE NepaliDate(MinOf(LaterYears(y)), 1, 1)

\* C25: convertBSToAD is strictly order-preserving over all valid dates of
\* the installed data source.  convertBSToAD(2000, 1, 1) is AD 1943-04-14,
\* and for two valid BS dates a < b, dates in years before 2000 included
\* when the source holds them, convertBSToAD(a) is an earlier AD day than
\* convertBSToAD(b); here b is the valid date that follows a, which gives
\* the order of every pair by transitivity.
C25_StrictlyOrderPreserving ==
  ( /\ call.op = "convertBSToAD"
    /\ IsOk(call.out)
    /\ ValidByRule(call.args[1], call.args[2], call.args[3]) )
    => /\ call.args = <<BS_BASE_YEAR, 1, 1>> => LocalDay(call.out.val) = 0
       /\ LET b == NextValidDate(call.args[1], call.args[2], call.args[3])
              r == IF b = null THEN NotInitialized
                   ELSE convertBSToAD(_dataSource, hostOffset, b.year, b.month, b.day)
          IN  IsOk(r) => LocalDay(call.out.val) < LocalDay(r.val)

----------------------------------------------------------------------------
(* C26 *)

\* convertADToBS applied to the calendar day the shifted input shows on the
\* UTC axis, given as a Date of that calendar day on this host
NepalDayOfInputInBS ==
  convertADToBS(_dataSource, hostOffset,
                NewLocalDate(toNepalTime(call.args[2]).day, 0, hostOffset))

\* C26: the absolute date shown by getRelativeTimeInNepali is the BS date of
\* the input's Nepal-local calendar day whatever the host timezone is.  For
\* every input before the current Nepal-local midnight and every host UTC
\* offset, the returned string is the BS date string of convertADToBS applied
\* to the calendar day of (input + 5h45m) read on the UTC axis.
C26_AbsoluteDateIndependentOfHost ==
  ( RelativeTimeOfDate /\ BeforeTodayInNepal /\ IsOk(NepalDayOfInputInBS) )
    => call.out.val = _bsDateString(NepalDayOfInputInBS.val)

----------------------------------------------------------------------------
(* The Dart engine (class NepaliCalendar) *)

\* data[i] on a Dart List with an index outside 0..length-1
RangeError == Err("RangeError")

\* data[i] with a 0-based index
DartIndex(data, i) == IF i >= 0 /\ i < Len(data) THEN Ok(data[i + 1]) ELSE RangeError

\* the getter _ds
Dart_ds(S) == IF S = null THEN NotInitialized ELSE Ok(S)

Dart_getDaysInBSMonth(S, year, month) ==
  LET src == Dart_ds(S)
  IN  IF ~IsOk(src) THEN src
      ELSE LET data == getYearData(src.val, year)
           IN  IF data = noYearData THEN UnknownYear
               ELSE DartIndex(data, month - 1)

Dart_getTotalDaysInBSYear(S, year) ==
  LET src == Dart_ds(S)
  IN  IF ~IsOk(src) THEN src
      ELSE LET data == getYearData(src.val, year)
           IN  IF data = noYearData THEN UnknownYear
               ELSE Ok(SumSeq(data))

Dart_isValidBSDate(S, year, month, day) ==
  IF month < 1 \/ month > 12 \/ day < 1 THEN Ok(FALSE)
  ELSE LET src == Dart_ds(S)
       IN  IF ~IsOk(src) THEN src
           ELSE LET data == getYearData(src.val, year)
                IN  IF data = noYearData THEN Ok(FALSE)
                    ELSE LET len == DartIndex(data, month - 1)
                         IN  IF ~IsOk(len) THEN len ELSE Ok(day <= len.val)

\* the first loop of convertADToBS
RECURSIVE Dart_YearWalk(_, _, _)
Dart_YearWalk(S, year, remaining) ==
  IF remaining > 0
  THEN LET diy == Dart_getTotalDaysInBSYear(S, year)
       IN  IF ~IsOk(diy) THEN diy
           ELSE IF remaining >= diy.val
                THEN Dart_YearWalk(S, year + 1, remaining - diy.val)
                ELSE Ok([year |-> year, remaining |-> remaining])
  ELSE Ok([year |-> year, remaining |-> remaining])

\* the second loop of convertADToBS
RECURSIVE Dart_MonthWalk(_, _, _, _)
Dart_MonthWalk(S, year, month, remaining) ==
  IF remaining > 0
  THEN LET dim == Dart_getDaysInBSMonth(S, year, month)
       IN  IF ~IsOk(dim) THEN dim
           ELSE IF remaining >= dim.val
                THEN Dart_MonthWalk(S, year, month + 1, remaining - dim.val)
                ELSE Ok(NepaliDate(year, month, remaining + 1))
  ELSE Ok(NepaliDate(year, month, remaining + 1))

\* adDate is given by the day index of its own year, month and day fields;
\* DateTime.utc(y, m, d).difference(_bsBaseDate).inDays is that index
Dart_convertADToBS(S, adDay) ==
  LET yw == Dart_YearWalk(S, BS_BASE_YEAR, adDay)
  IN  IF ~IsOk(yw) THEN yw
      ELSE Dart_MonthWalk(S, yw.val.year, 1, yw.val.remaining)

RECURSIVE Dart_YearsTotal(_, _, _, _)
Dart_YearsTotal(S, y, bsYear, total) ==
  IF y < bsYear
  THEN LET diy == Dart_getTotalDaysInBSYear(S, y)
       IN  IF ~IsOk(diy) THEN diy ELSE Dart_YearsTotal(S, y + 1, bsYear, total + diy.val)
  ELSE Ok(total)

RECURSIVE Dart_MonthsTotal(_, _, _, _, _)
Dart_MonthsTotal(S, bsYear, m, bsMonth, total) ==
  IF m < bsMonth
  THEN LET dim == Dart_getDaysInBSMonth(S, bsYear, m)
       IN  IF ~IsOk(dim) THEN dim
           ELSE Dart_MonthsTotal(S, bsYear, m + 1, bsMonth, total + dim.val)
  ELSE Ok(total)

\* the result is the UTC DateTime _bsBaseDate.add(Duration(days: total))
Dart_convertBSToAD(S, bsYear, bsMonth, bsDay) ==
  LET valid == Dart_isValidBSDate(S, bsYear, bsMonth, bsDay)
  IN  IF ~IsOk(valid) THEN valid
      ELSE IF ~valid.val THEN InvalidDate
      ELSE LET yt == Dart_YearsTotal(S, BS_BASE_YEAR, bsYear, 0)
           IN  IF ~IsOk(yt) THEN yt
               ELSE LET mt == Dart_MonthsTotal(S, bsYear, 1, bsMonth, yt.val)
                    IN  IF ~IsOk(mt) THEN mt
                        ELSE Ok(DateUTC(mt.val + (bsDay - 1)))

\* the sources both engines are run on: the tables of the epoch year and
\* the next, well-formed, with a short first table and with an overlong
\* month in the second
PortedSources ==
  { InlineCalendarDataSource([y \in DOMAIN years |-> years[y]], BS_BASE_YEAR, BS_BASE_YEAR + 1) :
      years \in { [y \in BS_BASE_YEAR..(BS_BASE_YEAR + 1) |-> YearTable(y)],
                  [y \in BS_BASE_YEAR..(BS_BASE_YEAR + 1) |->
                     IF y = BS_BASE_YEAR THEN ShortTable ELSE YearTable(y)],
                  [y \in BS_BASE_YEAR..(BS_BASE_YEAR + 1) |->
                     IF y = BS_BASE_YEAR THEN YearTable(y) ELSE OverlongMonthTable],
                  [y \in {BS_BASE_YEAR + 1} |-> YearTable(y)] } }

PortedNext ==
  \/ \E source \in PortedSources : initializeCalendar(source)
  \/ \E y \in InputYears, m \in InputMonths, d \in InputDaysOfMonth : IsValidBSDate(y, m, d)
  \/ \E dayIndex \in InputDays, ms \in InputTimes : ConvertADToBS(dayIndex, ms)
  \/ \E y \in InputYears, m \in InputMonths, d \in InputDaysOfMonth : ConvertBSToAD(y, m, d)
  \/ Discard

PortedSpec == Init /\ [][PortedNext]_vars

----------------------------------------------------------------------------
(* C27 *)

\* what the Dart engine answers to the call the TypeScript engine answered
DartAnswer ==
  CASE call.op = "isValidBSDate" ->
         Dart_isValidBSDate(_dataSource, call.args[1], call.args[2], call.args[3])
    [] call.op = "convertADToBS" ->
         Dart_convertADToBS(_dataSource, LocalDay(ArgDate(call)))
    [] call.op = "convertBSToAD" ->
         Dart_convertBSToAD(_dataSource, call.args[1], call.args[2], call.args[3])

\* C27: the TypeScript and the Dart engine are equivalent.  For every data
\* source content and every input, isValidBSDate, convertADToBS and
\* convertBSToAD of the two implementations either both fail or both return
\* the same result: the same boolean, the same BS triple, the same AD
\* calendar day.
C27_EnginesEquivalent ==
  call.op \in {"isValidBSDate", "convertADToBS", "convertBSToAD"}
    => /\ IsOk(call.out) <=> IsOk(DartAnswer)
       /\ IsOk(call.out) =>
            IF call.op = "convertBSToAD"
            THEN LocalDay(call.out.val) = DartAnswer.val.day
            ELSE call.out.val = DartAnswer.val

----------------------------------------------------------------------------
(* CalendarController *)

\* `null` and a value in an optional field
None == <<>>

Some(v) == <<v>>

\* a CalendarDay without its events and tithi
CalendarDay(bsDay, bsDate, adDate, weekdayIndex, isToday) ==
  [bsDay |-> bsDay, bsDate |-> bsDate, adDate |-> adDate,
   weekdayIndex |-> weekdayIndex, isToday |-> isToday]

\* a day cell of the grid: adDate is convertBSToAD(year, month, d)
DayCell(off, today, year, month, d, adDate) ==
  CalendarDay(Some(d), Some(NepaliDate(year, month, d)), Some(adDate), getDay(adDate, off),
              d = today.day /\ month = today.month /\ year = today.year)

\* the cells _buildGrid pushes, given totalDays and the weekday of firstAD;
\* with totalDays undefined the loop `d <= totalDays` pushes no day cell
Cells(S, off, today, year, month, totalDays, firstWday) ==
  LET last     == IF IsOk(totalDays) THEN totalDays.val ELSE 0
      trailing == (7 - ((firstWday + last) % 7)) % 7
  IN  [i \in 1..firstWday |-> CalendarDay(None, None, None, i - 1, FALSE)]
        \o [d \in 1..last |->
              DayCell(off, today, year, month, d, convertBSToAD(S, off, year, month, d).val)]
        \o [i \in 1..trailing |-> CalendarDay(None, None, None, 0, FALSE)]

\* _buildGrid after its first two statements gave totalDays and firstAD
GridFrom(S, off, today, year, month, totalDays, firstAD) ==
  IF IsError(totalDays) THEN totalDays
  ELSE IF ~IsOk(firstAD) THEN firstAD
  ELSE Ok(Cells(S, off, today, year, month, totalDays, getDay(firstAD.val, off)))

\* _buildGrid for the fields _today, _year, _month: the new grid, or the
\* error getDaysInBSMonth or convertBSToAD throws
_buildGrid(S, off, today, year, month) ==
  GridFrom(S, off, today, year, month,
           getDaysInBSMonth(S, year, month), convertBSToAD(S, off, year, month, 1))

\* this._grid.find(d => d.isToday) ?? null
FindToday(grid) ==
  LET hits == { i \in 1..Len(grid) : grid[i].isToday }
  IN  IF hits = {} THEN None ELSE Some(grid[MinOf(hits)])

\* the unsubscribe functions a listener invokes when it is called: the
\* destroying callback invokes the one of the section's render callback
Unsubscribes(fn) == IF fn = "destroy" THEN {"render"} ELSE {}

\* a sequence without the members of a set
RECURSIVE Without(_, _)
Without(seq, gone) ==
  IF seq = <<>> THEN <<>>
  ELSE IF Head(seq) \in gone THEN Without(Tail(seq), gone)
  ELSE <<Head(seq)>> \o Without(Tail(seq), gone)

\* the subscription counts after the unsubscribe functions of `gone` ran
Released(subs, gone) ==
  [fn \in DOMAIN subs |-> IF fn \in gone /\ subs[fn] > 0 THEN subs[fn] - 1 ELSE subs[fn]]

\* mutant: _notify iterates a copy of the listener set
RECURSIVE NotifyWalk_snapshot(_, _, _, _)
NotifyWalk_snapshot(pending, listeners, subs, calls) ==
  IF pending = <<>> THEN [listeners |-> listeners, subs |-> subs, calls |-> calls]
  ELSE LET fn   == Head(pending)
           gone == Unsubscribes(fn)
       IN  NotifyWalk_snapshot(Tail(pending), Without(listeners, gone),
                               Released(subs, gone), Append(calls, fn))

\* for (const fn of this._listeners) fn(): the Set is iterated in insertion
\* order and an entry deleted before it is reached is not visited
RECURSIVE NotifyWalk(_, _, _, _)
NotifyWalk(pending, listeners, subs, calls) ==
  IF pending = <<>> THEN [listeners |-> listeners, subs |-> subs, calls |-> calls]
  ELSE LET fn   == Head(pending)
           gone == Unsubscribes(fn)
       IN  NotifyWalk(Without(Tail(pending), gone), Without(listeners, gone),
                      Released(subs, gone), Append(calls, fn))

\* what an operation of the controller leaves behind: the controller, the
\* subscriptions, its outcome and the listener calls it made, each with the
\* displayed year and month the listener found
Outcome(c, subs, out, calls) == [ctrl |-> c, subs |-> subs, out |-> out, calls |-> calls]

\* the listener calls of a notification, each with the displayed year and
\* month the listener finds
Notified(c, n) ==
  Outcome([c EXCEPT !._listeners = n.listeners], n.subs, Ok(<<>>),
          [i \in 1..Len(n.calls) |->
             [fn |-> n.calls[i], year |-> c._year, month |-> c._month]])

_notify(c, subs) == Notified(c, NotifyWalk(c._listeners, c._listeners, subs, <<>>))

\* the statements after _buildGrid() in the navigation methods: the default
\* selection and _notify(); a throwing _buildGrid ends the method
Rebuilt(c, subs, g) ==
  IF ~IsOk(g) THEN Outcome(c, subs, g, <<>>)
  ELSE _notify([c EXCEPT !._grid = g.val, !._selectedDay = FindToday(g.val)], subs)

\* the common tail of the navigation methods, from _buildGrid() on
Rebuild(S, off, c, subs) ==
  Rebuilt(c, subs, _buildGrid(S, off, c._today, c._year, c._month))

\* the constructor after _buildGrid()
ConstructedWith(today, g) ==
  IF ~IsOk(g) THEN g
  ELSE Ok([_today |-> today, _year |-> today.year, _month |-> today.month,
           _grid |-> g.val, _selectedDay |-> FindToday(g.val), _listeners |-> <<>>])

\* the constructor after getCurrentNepaliDate()
ConstructedOn(S, off, today) ==
  IF ~IsOk(today) THEN today
  ELSE ConstructedWith(today.val,
                       _buildGrid(S, off, today.val, today.val.year, today.val.month))

\* new CalendarController(eventSource) at the instant `now`
constructor(S, off, now) == ConstructedOn(S, off, getCurrentNepaliDate(S, off, now))

prevMonth(S, off, c, subs) ==
  Rebuild(S, off,
          IF c._month = 1 THEN [c EXCEPT !._year = @ - 1, !._month = 12]
          ELSE [c EXCEPT !._month = @ - 1],
          subs)

nextMonth(S, off, c, subs) ==
  Rebuild(S, off,
          IF c._month = 12 THEN [c EXCEPT !._year = @ + 1, !._month = 1]
          ELSE [c EXCEPT !._month = @ + 1],
          subs)

selectYearMonth(S, off, c, subs, year, month) ==
  IF c._year = year /\ c._month = month THEN Outcome(c, subs, Ok(<<>>), <<>>)
  ELSE Rebuild(S, off, [c EXCEPT !._year = year, !._month = month], subs)

goToToday(S, off, c, subs) ==
  Rebuild(S, off, [c EXCEPT !._year = c._today.year, !._month = c._today.month], subs)

\* day is None for null
selectDay(c, subs, day) ==
  _notify([c EXCEPT !._selectedDay = IF day # None THEN day ELSE FindToday(c._grid)], subs)

\* subscribe(fn): the Set holds a function once
subscribe(c, fn) ==
  IF \E i \in 1..Len(c._listeners) : c._listeners[i] = fn THEN c
  ELSE [c EXCEPT !._listeners = Append(@, fn)]

\* the function subscribe(fn) returned
unsubscribe(c, fn) == [c EXCEPT !._listeners = Without(@, {fn})]

(* The controller in use *)

\* a listener function is subscribed at most this many times at once
MaxSubscriptions == 2

\* the data source the page installs before it creates the controller holds
\* the epoch year
ControllerSources ==
  { InlineCalendarDataSource([y \in {BS_BASE_YEAR} |-> YearTable(y)],
                             BS_BASE_YEAR, BS_BASE_YEAR) }

\* the instants at which the controller is created: on the epoch day and
\* in the second month of the epoch year
ControllerClock == { [day |-> d, ms |-> NepalMidnightUTC] : d \in {0, 40} }

\* the year and month the selectors of the header pass: the first and the
\* last month of the year with data, and the first month combined with the
\* selected year after a nextMonth left the year with data
SelectTargets ==
  { <<BS_BASE_YEAR, 1>>, <<BS_BASE_YEAR, MONTHS_PER_YEAR>>, <<BS_BASE_YEAR + 1, 1>> }

\* the cell a click can select: the last of the first row
ClickableCells(grid) == { grid[i] : i \in {7} \cap (1..Len(grid)) }

Constructed == controller # null

\* what selectDay is called with: null or a cell of the grid
ClickTargets ==
  IF Constructed
  THEN {None} \cup { Some(cell) : cell \in ClickableCells(controller._grid) }
  ELSE {}

\* the page installs the data source before it creates the controller
InstallSource(source) ==
  /\ ~Constructed
  /\ initializeCalendar(source)

Construct(now) ==
  /\ ~Constructed
  /\ \E r \in {constructor(_dataSource, hostOffset, now)} :
       /\ controller' = IF IsOk(r) THEN r.val ELSE controller
       /\ call' = Call("constructor", <<now>>, <<>>, IF IsOk(r) THEN Ok(<<>>) ELSE r)
  /\ notified' = <<>>
  /\ UNCHANGED <<_dataSource, hostOffset, loaderVars, subscriptions>>

\* an operation of the controller with the outcome r
Operation(op, args, r) ==
  /\ controller' = r.ctrl
  /\ subscriptions' = r.subs
  /\ notified' = r.calls
  /\ call' = Call(op, args, <<>>, r.out)
  /\ UNCHANGED <<_dataSource, hostOffset, loaderVars>>

PrevMonth ==
  /\ Constructed
  /\ controller._year >= BS_BASE_YEAR
  /\ \E r \in {prevMonth(_dataSource, hostOffset, controller, subscriptions)} :
       Operation("prevMonth", <<>>, r)

NextMonth ==
  /\ Constructed
  /\ controller._year <= BS_BASE_YEAR
  /\ controller._month <= MONTHS_PER_YEAR
  /\ \E r \in {nextMonth(_dataSource, hostOffset, controller, subscriptions)} :
       Operation("nextMonth", <<>>, r)

SelectYearMonth(year, month) ==
  /\ Constructed
  /\ \E r \in {selectYearMonth(_dataSource, hostOffset, controller, subscriptions,
                               year, month)} :
       Operation("selectYearMonth", <<year, month>>, r)

GoToToday ==
  /\ Constructed
  /\ \E r \in {goToToday(_dataSource, hostOffset, controller, subscriptions)} :
       Operation("goToToday", <<>>, r)

SelectDay(day) ==
  /\ Constructed
  /\ \E r \in {selectDay(controller, subscriptions, day)} :
       Operation("selectDay", <<day>>, r)

Subscribe(fn) ==
  /\ Constructed
  /\ subscriptions[fn] < (IF fn = "render" THEN MaxSubscriptions ELSE 1)
  /\ Operation("subscribe", <<fn>>,
               Outcome(subscribe(controller, fn),
                       [subscriptions EXCEPT ![fn] = @ + 1], Ok(<<>>), <<>>))

\* an unsubscribe function that was not invoked before is invoked
Unsubscribe(fn) ==
  /\ Constructed
  /\ subscriptions[fn] > 0
  /\ Operation("unsubscribe", <<fn>>,
               Outcome(unsubscribe(controller, fn),
                       [subscriptions EXCEPT ![fn] = @ - 1], Ok(<<>>), <<>>))

ControllerNext ==
  \/ \E source \in ControllerSources : InstallSource(source)
  \/ \E now \in ControllerClock : Construct(now)
  \/ PrevMonth
  \/ NextMonth
  \/ \E t \in SelectTargets : SelectYearMonth(t[1], t[2])
  \/ GoToToday
  \/ \E day \in ClickTargets : SelectDay(day)
  \/ \E fn \in Listeners : Subscribe(fn)
  \/ \E fn \in Listeners : Unsubscribe(fn)

ControllerSpec == Init /\ [][ControllerNext]_vars

----------------------------------------------------------------------------
(* C28 *)

\* the operations that (re)build the grid
GridOps == {"constructor", "prevMonth", "nextMonth", "selectYearMonth", "goToToday"}

\* the grid of c is w empty cells, the day cells 1..n with weekdays running
\* on from w, and fewer than 7 empty cells up to a multiple of 7, where n
\* and w are the length and the first weekday of the displayed month
GridStructure(c) ==
  LET total == getDaysInBSMonth(_dataSource, c._year, c._month)
      first == convertBSToAD(_dataSource, hostOffset, c._year, c._month, 1)
      g     == c._grid
  IN  /\ IsOk(total) /\ IsOk(first)
      /\ LET n == total.val
             w == getDay(first.val, hostOffset)
         IN  /\ Len(g) % 7 = 0
             /\ Len(g) >= w + n
             /\ Len(g) - (w + n) < 7
             /\ \A i \in 1..Len(g) :
                  IF i <= w \/ i > w + n THEN g[i].bsDay = None
                  ELSE /\ g[i].bsDay = Some(i - w)
                       /\ g[i].weekdayIndex = (w + (i - w) - 1) % 7
             /\ Cardinality({ i \in 1..Len(g) : g[i].isToday }) <= 1

\* C28: CalendarController grid structure.  After construction and after
\* every prevMonth, nextMonth, selectYearMonth or goToToday that returns
\* normally, the grid is w empty cells (w = weekday index, 0 = Sunday, of the
\* AD date of day 1 of the displayed BS month), then one day cell for each
\* day 1..getDaysInBSMonth(selectedYear, selectedMonth) in ascending order
\* whose weekdayIndex advances by 1 modulo 7 from w, then fewer than 7 empty
\* cells so that the length is a multiple of 7; at most one cell has isToday.
C28_GridStructure ==
  ( Constructed /\ call.op \in GridOps /\ IsOk(call.out) ) => GridStructure(controller)

----------------------------------------------------------------------------
(* C29 *)

\* C29: CalendarController stays consistent when navigation fails.  In every
\* reachable state, those after a prevMonth, nextMonth or selectYearMonth
\* that raised because the target BS year has no data included, the grid is
\* the one built for the current (selectedYear, selectedMonth) and
\* selectedDay is null or one of its cells: a failed navigation has left
\* selectedYear, selectedMonth, grid and selectedDay as they were.
C29_ConsistentAfterFailedNavigation ==
  Constructed =>
    LET g == _buildGrid(_dataSource, hostOffset, controller._today,
                        controller._year, controller._month)
    IN  /\ IsOk(g)
        /\ controller._grid = g.val
        /\ \/ controller._selectedDay = None
           \/ \E i \in 1..Len(g.val) : controller._selectedDay = Some(g.val[i])

----------------------------------------------------------------------------
(* C30 *)

\* the operations that end with _notify()
NotifyingOps == {"prevMonth", "nextMonth", "goToToday", "selectDay", "selectYearMonth"}

\* the members of a sequence
Members(seq) == { seq[i] : i \in 1..Len(seq) }

\* how often fn was called in the listener calls `calls`
TimesCalled(calls, fn) == Cardinality({ i \in 1..Len(calls) : calls[i].fn = fn })

\* the step is selectYearMonth with the year and month already displayed
SelectsDisplayed ==
  /\ call'.op = "selectYearMonth"
  /\ call'.args = <<controller._year, controller._month>>

\* the step is an operation that completed and ends with _notify()
CompletesAndNotifies ==
  /\ Constructed
  /\ call'.op \in NotifyingOps
  /\ IsOk(call'.out)
  /\ ~SelectsDisplayed

====
